---- MODULE Spec2Model ----
(***************************************************************************)
(* Model of elyra/metadata/metadata_app_utils.py: the Option classes and    *)
(* AppBase (argument ingestion, --file flattening, option resolution).      *)
(*                                                                          *)
(* Python strings are sequences of one-character strings, so that split,    *)
(* rsplit, startswith, "in" and concatenation are computed as the code      *)
(* computes them.  Other Python values are tagged records (PyNone, PyStr,   *)
(* PyBool, PyInt, PyDict, PyList).                                          *)
(***************************************************************************)
EXTENDS Integers, Sequences, FiniteSets, TLC

VARIABLES
    argv,           \* AppBase.argv: the list handed to the constructor, mutated in place
    argv_mappings,  \* AppBase.argv_mappings: dict option -> raw value
    options,        \* the Option instances the caller holds, in list order
    files,          \* the file system: file name -> content of the file
    log_level,      \* logging.getLogger().level
    status,         \* "new" | "running" | "exit" (sys.exit) | "raised" (uncaught exception)
    exit_status,    \* the status given to sys.exit
    message,        \* what log_and_exit printed / which exception was raised
    help_shown,     \* print_help() was called
    returned,       \* what the call just made returned
    schema,         \* the schema handed to schema_to_options, PyNone before that
    last            \* the call just made, with the state it was made in

vars == <<argv, argv_mappings, options, files, log_level, status, exit_status,
          message, help_shown, returned, schema, last>>

-----------------------------------------------------------------------------
(* Bounds of the model *)

MaxArgv == 2
MaxOptions == 2
MaxIngestArgv == 3
MaxJsonKeys == 2
MaxProperties == 2

-----------------------------------------------------------------------------
(* Python strings *)

\* c in s
Contains(s, c) == \E i \in 1..Len(s) : s[i] = c

\* s.find(c) + 1, for c in s
IndexOf(s, c) == CHOOSE i \in 1..Len(s) : s[i] = c /\ \A j \in 1..(i - 1) : s[j] # c

\* s.rfind(c) + 1, for c in s
LastIndexOf(s, c) == CHOOSE i \in 1..Len(s) : s[i] = c /\ \A j \in (i + 1)..Len(s) : s[j] # c

\* s.split(c, 1), for c in s
Split1(s, c) == <<SubSeq(s, 1, IndexOf(s, c) - 1), SubSeq(s, IndexOf(s, c) + 1, Len(s))>>

\* s.split(c)[0]
SplitHead(s, c) == IF Contains(s, c) THEN SubSeq(s, 1, IndexOf(s, c) - 1) ELSE s

\* s.rsplit(c, 1)[0]
RSplitHead(s, c) == IF Contains(s, c) THEN SubSeq(s, 1, LastIndexOf(s, c) - 1) ELSE s

\* s.startswith(p)
StartsWith(s, p) == Len(p) <= Len(s) /\ SubSeq(s, 1, Len(p)) = p

\* os.path.basename(s)
Basename(s) == IF Contains(s, "/") THEN SubSeq(s, LastIndexOf(s, "/") + 1, Len(s)) ELSE s

\* x in lst
InList(lst, x) == \E i \in 1..Len(lst) : lst[i] = x

\* lst.remove(x), for x in lst: the first occurrence goes
ListRemove(lst, x) ==
    LET i == CHOOSE k \in 1..Len(lst) : lst[k] = x /\ \A j \in 1..(k - 1) : lst[j] # x
    IN  SubSeq(lst, 1, i - 1) \o SubSeq(lst, i + 1, Len(lst))

-----------------------------------------------------------------------------
(* Python values *)

PyNone == [t |-> "None"]
PyStr(s) == [t |-> "str", v |-> s]
PyBool(b) == [t |-> "bool", v |-> b]
PyInt(n) == [t |-> "int", v |-> n]
PyFloat(s) == [t |-> "float", v |-> s]     \* a float, kept as its literal
PyDict(items) == [t |-> "dict", v |-> items] \* items: sequence of <<key, value>>, in dict order
PyList(elems) == [t |-> "list", v |-> elems] \* elems: the set of the list's members

\* bool(x)
Truthy(x) ==
    CASE x.t = "None" -> FALSE
      [] x.t = "str" -> Len(x.v) > 0
      [] x.t = "bool" -> x.v
      [] x.t = "int" -> x.v # 0
      [] x.t = "float" -> TRUE
      [] x.t = "dict" -> Len(x.v) > 0
      [] x.t = "list" -> x.v # {}

\* decimal digits, for int() and str()
Digits == <<"0", "1", "2", "3", "4", "5", "6", "7", "8", "9">>
IsDigit(c) == \E d \in 1..10 : Digits[d] = c
DigitVal(c) == (CHOOSE d \in 1..10 : Digits[d] = c) - 1
IsDigits(s) == Len(s) > 0 /\ \A i \in 1..Len(s) : IsDigit(s[i])

RECURSIVE DigitsVal(_)
DigitsVal(s) == IF Len(s) = 0 THEN 0
                ELSE 10 * DigitsVal(SubSeq(s, 1, Len(s) - 1)) + DigitVal(s[Len(s)])

\* int(x): [ok, v]; int of a non-numeric string raises ValueError, of None TypeError
PyIntOf(x) ==
    CASE x.t = "int" -> [ok |-> TRUE, v |-> x, exc |-> "none"]
      [] x.t = "bool" -> [ok |-> TRUE, v |-> PyInt(IF x.v THEN 1 ELSE 0), exc |-> "none"]
      [] x.t = "str" -> IF IsDigits(x.v)
                        THEN [ok |-> TRUE, v |-> PyInt(DigitsVal(x.v)), exc |-> "none"]
                        ELSE [ok |-> FALSE, v |-> PyNone, exc |-> "ValueError"]
      [] OTHER -> [ok |-> FALSE, v |-> PyNone, exc |-> "TypeError"]

\* float(s) accepts s: digits with one decimal point (the literals the model's alphabet can spell)
IsFloatLit(s) ==
    /\ Contains(s, ".")
    /\ IsDigits(SubSeq(s, 1, IndexOf(s, ".") - 1) \o SubSeq(s, IndexOf(s, ".") + 1, Len(s)))

Uppers == <<"A", "B", "C", "D", "E", "F", "G", "H", "I", "J", "K", "L", "M",
            "N", "O", "P", "Q", "R", "S", "T", "U", "V", "W", "X", "Y", "Z">>
Lowers == <<"a", "b", "c", "d", "e", "f", "g", "h", "i", "j", "k", "l", "m",
            "n", "o", "p", "q", "r", "s", "t", "u", "v", "w", "x", "y", "z">>

\* s.lower()
LowerChar(c) == IF \E k \in 1..26 : Uppers[k] = c
                THEN Lowers[CHOOSE k \in 1..26 : Uppers[k] = c] ELSE c
Lower(s) == [i \in 1..Len(s) |-> LowerChar(s[i])]

RECURSIVE NatStr(_)
NatStr(n) == IF n < 10 THEN <<Digits[n + 1]>> ELSE NatStr(n \div 10) \o <<Digits[(n % 10) + 1]>>

\* str(x); a container's or a float's text is none of the words set_value compares with
PyStrOf(x) ==
    CASE x.t = "str" -> x.v
      [] x.t = "None" -> <<"N", "o", "n", "e">>
      [] x.t = "bool" -> IF x.v THEN <<"T", "r", "u", "e">> ELSE <<"F", "a", "l", "s", "e">>
      [] x.t = "int" -> IF x.v >= 0 THEN NatStr(x.v) ELSE <<"-">> \o NatStr(0 - x.v)
      [] x.t = "float" -> x.v
      [] OTHER -> <<"{", "}">>

\* ast.literal_eval(x), for strings over letters, digits and '.': a number or an error
LiteralEval(x) ==
    IF x.t = "str" /\ IsDigits(x.v) THEN [ok |-> TRUE, v |-> PyInt(DigitsVal(x.v)), exc |-> "none"]
    ELSE IF x.t = "str" /\ IsFloatLit(x.v) THEN [ok |-> TRUE, v |-> PyFloat(x.v), exc |-> "none"]
    ELSE [ok |-> FALSE, v |-> PyNone, exc |-> "ValueError"]

-----------------------------------------------------------------------------
(* class Option and its subclasses *)

\* Option.__init__: value starts as default_value, processed as the class attribute False
Option(class, cli_option, name, default_value, one_of, required, type) ==
    [class |-> class, cli_option |-> cli_option, name |-> name,
     default_value |-> default_value, value |-> default_value, one_of |-> one_of,
     required |-> required, type |-> type, processed |-> FALSE]

CliOption(cli_option, name, default_value, one_of, required, type) ==
    Option("CliOption", cli_option, name, default_value, one_of, required, type)

\* Flag.__init__: type is fixed to boolean
Flag(flag, name, default_value, required) ==
    Option("Flag", flag, name, default_value, PyNone, required, "boolean")

\* SchemaProperty.__init__ / MetadataSchemaProperty.__init__: '--' + name, never one_of,
\* required False until schema_to_options sets it
SchemaProperty(name, type, default) ==
    Option("SchemaProperty", <<"-", "-">> \o name, PyStr(name), default, PyNone, FALSE, type)

MetadataSchemaProperty(name, type, default) ==
    Option("MetadataSchemaProperty", <<"-", "-">> \o name, PyStr(name), default, PyNone,
           FALSE, type)

\* Option.set_value: [ok, v, exc], v the new self.value
set_value(type, value) ==
    CASE type \in {"array", "object"} -> LiteralEval(value)
      [] type = "integer" -> PyIntOf(value)
      [] type = "number" ->
            IF value.t = "str"
            THEN IF Contains(value.v, ".")
                 THEN IF IsFloatLit(value.v)
                      THEN [ok |-> TRUE, v |-> PyFloat(value.v), exc |-> "none"]
                      ELSE [ok |-> FALSE, v |-> PyNone, exc |-> "ValueError"]
                 ELSE PyIntOf(value)
            ELSE [ok |-> FALSE, v |-> PyNone, exc |-> "TypeError"]
      [] type = "boolean" ->
            IF value.t = "bool" THEN [ok |-> TRUE, v |-> value, exc |-> "none"]
            ELSE IF Lower(PyStrOf(value)) \in {<<"t", "r", "u", "e">>, <<"1">>}
                 THEN [ok |-> TRUE, v |-> PyBool(TRUE), exc |-> "none"]
            ELSE IF Lower(PyStrOf(value)) \in {<<"f", "a", "l", "s", "e">>, <<"0">>}
                 THEN [ok |-> TRUE, v |-> PyBool(FALSE), exc |-> "none"]
            ELSE [ok |-> TRUE, v |-> value, exc |-> "none"]
      [] type = "null" ->
            IF PyStrOf(value) \in {<<"n", "u", "l", "l">>, <<"N", "o", "n", "e">>}
            THEN [ok |-> TRUE, v |-> PyNone, exc |-> "none"]
            ELSE [ok |-> TRUE, v |-> value, exc |-> "none"]
      [] OTHER -> [ok |-> TRUE, v |-> value, exc |-> "none"]

\* not x, for the values a Flag's default takes
PyNot(x) == PyBool(~Truthy(x))

-----------------------------------------------------------------------------
(* class AppBase.  Its methods are operators on the record                   *)
(*   [argv, map, opts, log, st, code, msg, help]                              *)
(* of the instance's argv, the argv_mappings dict, the caller's options, the  *)
(* logging level and the way the call ended: st = "ok" (returned), "exit"     *)
(* (sys.exit(code) after printing msg) or "raised" (exception msg.kind).      *)

NoMessage == [kind |-> "none", option |-> <<>>]
Msg(kind, option) == [kind |-> kind, option |-> option]

EmptyMap == [k \in {} |-> PyNone]

\* d[k] = v
MapSet(d, k, v) == [x \in (DOMAIN d) \cup {k} |-> IF x = k THEN v ELSE d[x]]

\* d.pop(k)
MapPop(d, k) == [x \in (DOMAIN d) \ {k} |-> d[x]]

\* an exception leaves the method
Raise(a, exc, option) == [a EXCEPT !.st = "raised", !.msg = Msg(exc, option)]

\* AppBase.exit: sys.exit(status)
exit(a, exit_code) == [a EXCEPT !.st = "exit", !.code = exit_code]

\* AppBase.log_and_exit(msg, exit_status, display_help)
log_and_exit(a, msg, exit_code, display_help) ==
    exit([a EXCEPT !.msg = msg, !.help = (a.help \/ display_help)], exit_code)

\* AppBase.has_help
has_help(a) == {<<"-", "-", "h", "e", "l", "p">>, <<"-", "h">>} \cap (DOMAIN a.map) # {}

\* _remove_argv_entry looking for the bare option, without '=' + value
RemoveBareEntry(a, cli_option) ==
    IF cli_option \notin DOMAIN a.map
    THEN log_and_exit(a, Msg("cant_find", cli_option), 1, FALSE)
    ELSE [a EXCEPT !.argv = IF InList(a.argv, cli_option)
                             THEN ListRemove(a.argv, cli_option) ELSE a.argv,
                   !.map = MapPop(a.map, cli_option)]

\* AppBase._remove_argv_entry(cli_option)
_remove_argv_entry(a, cli_option) ==
    IF cli_option \notin DOMAIN a.map
    THEN log_and_exit(a, Msg("cant_find", cli_option), 1, FALSE)
    ELSE LET value == a.map[cli_option]
         IN  IF Truthy(value) /\ value.t # "str"
             THEN Raise(a, "TypeError", cli_option)      \* str + non-str
             ELSE LET entry == IF Truthy(value) THEN cli_option \o <<"=">> \o value.v
                                                 ELSE cli_option
                  IN  [a EXCEPT !.argv = IF InList(a.argv, entry)
                                         THEN ListRemove(a.argv, entry) ELSE a.argv,
                                !.map = MapPop(a.map, cli_option)]

\* the scan of required_value_is_missing: some entry under the prefix has a value
SubObjectHasValue(map, sub_option_prefix) ==
    \E other_option \in DOMAIN map :
        StartsWith(other_option, sub_option_prefix) /\ map[other_option] # PyNone

\* required_value_is_missing without the test '.' not in option.name
MissingWithoutDotTest(a, i) ==
    LET option == a.opts[i]
    IN  IF option.required /\ option.value = PyNone
        THEN IF option.name.t # "str"
             THEN [a |-> Raise(a, "TypeError", option.cli_option), missing |-> FALSE]
             ELSE IF SubObjectHasValue(a.map, RSplitHead(option.cli_option, ".") \o <<".">>)
             THEN [a |-> a, missing |-> TRUE]
             ELSE [a |-> [a EXCEPT !.opts[i].required = FALSE], missing |-> FALSE]
        ELSE [a |-> a, missing |-> FALSE]

\* required_value_is_missing with option.required = False set before the scan
MissingDemotesFirst(a, i) ==
    LET option == a.opts[i]
        d == [a EXCEPT !.opts[i].required = FALSE]
    IN  IF option.required /\ option.value = PyNone
        THEN IF option.name.t # "str"
             THEN [a |-> Raise(a, "TypeError", option.cli_option), missing |-> FALSE]
             ELSE IF ~Contains(option.name.v, ".")
             THEN [a |-> a, missing |-> TRUE]
             ELSE IF SubObjectHasValue(a.map, RSplitHead(option.cli_option, ".") \o <<".">>)
             THEN [a |-> d, missing |-> TRUE]
             ELSE [a |-> d, missing |-> FALSE]
        ELSE [a |-> a, missing |-> FALSE]

\* required_value_is_missing without option.required = False
MissingNeverDemotes(a, i) ==
    LET option == a.opts[i]
    IN  IF option.required /\ option.value = PyNone
        THEN IF option.name.t # "str"
             THEN [a |-> Raise(a, "TypeError", option.cli_option), missing |-> FALSE]
             ELSE IF ~Contains(option.name.v, ".")
             THEN [a |-> a, missing |-> TRUE]
             ELSE IF SubObjectHasValue(a.map, RSplitHead(option.cli_option, ".") \o <<".">>)
             THEN [a |-> a, missing |-> TRUE]
             ELSE [a |-> a, missing |-> FALSE]
        ELSE [a |-> a, missing |-> FALSE]

\* AppBase.required_value_is_missing(option): [a, missing]; a.st = "raised" when
\* option.name is None
required_value_is_missing(a, i) ==
    LET option == a.opts[i]
    IN  IF option.required /\ option.value = PyNone
        THEN IF option.name.t # "str"
             THEN [a |-> Raise(a, "TypeError", option.cli_option), missing |-> FALSE]
             ELSE IF ~Contains(option.name.v, ".")
             THEN [a |-> a, missing |-> TRUE]
             ELSE IF SubObjectHasValue(a.map, RSplitHead(option.cli_option, ".") \o <<".">>)
             THEN [a |-> a, missing |-> TRUE]
             ELSE [a |-> [a EXCEPT !.opts[i].required = FALSE], missing |-> FALSE]
        ELSE [a |-> a, missing |-> FALSE]

\* the Flag branch written as "cli_option.value = True"
FlagValueSetsTrue(cli_option) == PyBool(TRUE)

\* the value process_cli_option gives a Flag found in argv_mappings
FlagValue(cli_option) == PyNot(cli_option.default_value)

\* process_cli_option, the branch of an option found in argv_mappings
ResolvePresent(a, i) ==
    LET cli_option == a.opts[i]
        option == cli_option.cli_option
    IN  IF cli_option.class = "Flag"
        THEN _remove_argv_entry([a EXCEPT !.opts[i].value = FlagValue(cli_option)],
                                option)
        ELSE LET r == set_value(cli_option.type, a.map[option])
                 b == [a EXCEPT !.opts[i].value = r.v]
             IN  IF ~r.ok THEN Raise(a, r.exc, option)
                 ELSE IF cli_option.required /\ ~Truthy(r.v)
                 THEN log_and_exit(b, Msg("requires_value", option), 1, TRUE)
                 ELSE IF cli_option.required /\ Truthy(cli_option.one_of)
                         /\ r.v \notin cli_option.one_of.v
                 THEN log_and_exit(b, Msg("requires_one_of", option), 1, TRUE)
                 ELSE _remove_argv_entry(b, option)

\* process_cli_option, the branch of an option not found in argv_mappings
ResolveAbsent(a, i) ==
    LET m == required_value_is_missing(a, i)
    IN  IF m.a.st # "ok" THEN m.a
        ELSE IF m.missing
        THEN IF a.opts[i].one_of = PyNone
             THEN log_and_exit(m.a, Msg("required", a.opts[i].cli_option), 1, TRUE)
             ELSE log_and_exit(m.a, Msg("required_one_of", a.opts[i].cli_option), 1, TRUE)
        ELSE m.a

\* process_cli_option where the last statement runs after an error as well
ProcessedRegardless(a, i, check_help) ==
    IF check_help /\ has_help(a) THEN log_and_exit(a, NoMessage, 1, TRUE)
    ELSE IF a.opts[i].processed THEN a
    ELSE LET b == IF a.opts[i].cli_option \in DOMAIN a.map
                  THEN ResolvePresent(a, i) ELSE ResolveAbsent(a, i)
         IN  [b EXCEPT !.opts[i].processed = TRUE]

\* process_cli_option with the processed check made before the help check
ProcessedCheckFirst(a, i, check_help) ==
    IF a.opts[i].processed THEN a
    ELSE IF check_help /\ has_help(a) THEN log_and_exit(a, NoMessage, 1, TRUE)
    ELSE LET b == IF a.opts[i].cli_option \in DOMAIN a.map
                  THEN ResolvePresent(a, i) ELSE ResolveAbsent(a, i)
         IN  IF b.st = "ok" THEN [b EXCEPT !.opts[i].processed = TRUE] ELSE b

\* AppBase.process_cli_option(cli_option, check_help)
process_cli_option(a, i, check_help) ==
    IF check_help /\ has_help(a) THEN log_and_exit(a, NoMessage, 1, TRUE)
    ELSE IF a.opts[i].processed THEN a
    ELSE LET b == IF a.opts[i].cli_option \in DOMAIN a.map
                  THEN ResolvePresent(a, i) ELSE ResolveAbsent(a, i)
         IN  IF b.st = "ok" THEN [b EXCEPT !.opts[i].processed = TRUE] ELSE b

\* the loop of process_cli_options, from the i-th option of the list on
RECURSIVE ProcessFrom(_, _)
ProcessFrom(a, i) ==
    IF i > Len(a.opts) \/ a.st # "ok" THEN a
    ELSE ProcessFrom(process_cli_option(a, i, FALSE), i + 1)

\* the check written on argv_mappings: len(self.argv_mappings) > 0
ArgumentsRemainInMappings(a) == DOMAIN a.map # {}

\* the last check of process_cli_options: len(self.argv) > 0
ArgumentsRemain(a) == Len(a.argv) > 0

\* process_cli_options with the help check made after the loop
ProcessThenCheckHelp(a) ==
    LET b == ProcessFrom(a, 1)
    IN  IF b.st # "ok" THEN b
        ELSE IF has_help(b) THEN log_and_exit(b, NoMessage, 1, TRUE)
        ELSE IF ArgumentsRemain(b) THEN log_and_exit(b, Msg("unexpected", <<>>), 1, TRUE)
        ELSE b

\* AppBase.process_cli_options(cli_options)
process_cli_options(a) ==
    IF has_help(a) THEN log_and_exit(a, NoMessage, 1, TRUE)
    ELSE LET b == ProcessFrom(a, 1)
         IN  IF b.st = "ok" /\ ArgumentsRemain(b)
             THEN log_and_exit(b, Msg("unexpected", <<>>), 1, TRUE)
             ELSE b

-----------------------------------------------------------------------------
(* Argument ingestion *)

DD == <<"-", "-">>
METADATA == <<"m", "e", "t", "a", "d", "a", "t", "a">>
OPT_DEBUG == DD \o <<"d", "e", "b", "u", "g">>
OPT_LOG_LEVEL == DD \o <<"l", "o", "g", "-", "l", "e", "v", "e", "l">>
OPT_FILE == DD \o <<"f", "i", "l", "e">>
OPT_NAME == DD \o <<"n", "a", "m", "e">>
OPT_HELP == DD \o <<"h", "e", "l", "p">>

LEVEL_DEBUG == <<"D", "E", "B", "U", "G">>
LEVEL_INFO == <<"I", "N", "F", "O">>

\* logging._nameToLevel
LevelNames == {LEVEL_DEBUG, LEVEL_INFO, <<"W", "A", "R", "N">>,
               <<"W", "A", "R", "N", "I", "N", "G">>, <<"E", "R", "R", "O", "R">>,
               <<"C", "R", "I", "T", "I", "C", "A", "L">>, <<"F", "A", "T", "A", "L">>,
               <<"N", "O", "T", "S", "E", "T">>}

\* what a file name leads to: no file, a file that is not JSON, or the JSON object in it
NoFile == [t |-> "missing"]
NotJson == [t |-> "invalid"]

\* AppBase.load_argv_mappings_from_json(json_data, prefix), from the k-th item on:
\* [map, exc]; the first object-valued item ends the loop (return)
RECURSIVE load_argv_mappings_from_json(_, _, _, _)
load_argv_mappings_from_json(map, items, k, prefix) ==
    IF k > Len(items) THEN [map |-> map, exc |-> "none"]
    ELSE LET key == items[k][1]
             v == items[k][2]
             prefixed_name == IF key # METADATA
                              THEN IF Truthy(prefix) THEN PyStr(prefix.v \o <<".">> \o key)
                                                     ELSE PyStr(key)
                              ELSE PyNone
         IN  IF v.t = "dict" THEN load_argv_mappings_from_json(map, v.v, 1, prefixed_name)
             ELSE IF prefixed_name = PyNone THEN [map |-> map, exc |-> "TypeError"]
             ELSE load_argv_mappings_from_json(MapSet(map, DD \o prefixed_name.v, v),
                                               items, k + 1, prefix)

\* AppBase.load_argv_mappings_from_file(filename): [map, exc]
load_argv_mappings_from_file(map, fs, filename) ==
    IF filename.t # "str" THEN [map |-> map, exc |-> "TypeError"]
    ELSE IF filename.v \notin DOMAIN fs \/ fs[filename.v] = NoFile
    THEN [map |-> map, exc |-> "FileNotFoundError"]
    ELSE IF fs[filename.v] = NotJson THEN [map |-> map, exc |-> "JSONDecodeError"]
    ELSE load_argv_mappings_from_json(
             MapSet(map, OPT_NAME, PyStr(SplitHead(Basename(filename.v), "."))),
             fs[filename.v].v, 1, PyNone)

\* the loop of _get_argv_mappings from the k-th argument on;
\* g = [map, log, log_option, file_option, exc]
RECURSIVE WalkArgv(_, _, _, _)
WalkArgv(g, args, fs, k) ==
    IF k > Len(args) \/ g.exc # "none" THEN g
    ELSE LET arg == args[k]
             option == IF Contains(arg, "=") THEN Split1(arg, "=")[1] ELSE arg
             value == IF Contains(arg, "=") THEN PyStr(Split1(arg, "=")[2]) ELSE PyNone
         IN  IF option = OPT_DEBUG
             THEN WalkArgv([g EXCEPT !.log_option = PyStr(arg), !.log = LEVEL_DEBUG],
                           args, fs, k + 1)
             ELSE IF option = OPT_LOG_LEVEL
             THEN IF value = PyNone THEN [g EXCEPT !.log_option = PyStr(arg), !.exc = "TypeError"]
                  ELSE IF value.v \notin LevelNames
                  THEN [g EXCEPT !.log_option = PyStr(arg), !.exc = "ValueError"]
                  ELSE WalkArgv([g EXCEPT !.log_option = PyStr(arg), !.log = value.v],
                                args, fs, k + 1)
             ELSE IF option = OPT_FILE
             THEN LET f == load_argv_mappings_from_file(g.map, fs, value)
                  IN  WalkArgv([g EXCEPT !.file_option = PyStr(arg), !.map = f.map,
                                         !.exc = f.exc], args, fs, k + 1)
             ELSE WalkArgv([g EXCEPT !.map = MapSet(g.map, option, value)], args, fs, k + 1)

\* AppBase._get_argv_mappings, as called by AppBase.__init__
_get_argv_mappings(a, fs) ==
    LET g == WalkArgv([map |-> a.map, log |-> a.log, log_option |-> PyNone,
                       file_option |-> PyNone, exc |-> "none"], a.argv, fs, 1)
        b == [a EXCEPT !.map = g.map, !.log = g.log]
        argv1 == IF Truthy(g.log_option) THEN ListRemove(a.argv, g.log_option.v) ELSE a.argv
        argv2 == IF Truthy(g.file_option) THEN ListRemove(argv1, g.file_option.v) ELSE argv1
    IN  IF g.exc # "none" THEN Raise(b, g.exc, <<>>)
        ELSE [b EXCEPT !.argv = argv2]

\* A JSON schema, or a property stanza of one: has_properties says whether the key
\* 'properties' is there, properties is its items as a sequence of <<key, stanza>>,
\* required the list of names, empty when the key is absent.
SchemaNode(type, has_properties, properties, required) ==
    [type |-> type, has_properties |-> has_properties, properties |-> properties,
     required |-> required, default |-> PyNone]

SCHEMA_NAME == <<"s", "c", "h", "e", "m", "a", "_", "n", "a", "m", "e">>

\* opts[k] = v on a dict kept as a sequence of <<key, value>> in insertion order
DictSet(d, k, v) ==
    IF \E i \in 1..Len(d) : d[i][1] = k
    THEN [i \in 1..Len(d) |-> IF d[i][1] = k THEN <<k, v>> ELSE d[i]]
    ELSE Append(d, <<k, v>>)

\* d.update(e), from the i-th item of e on
RECURSIVE DictUpdate(_, _, _)
DictUpdate(d, e, i) ==
    IF i > Len(e) THEN d ELSE DictUpdate(DictSet(d, e[i][1], e[i][2]), e, i + 1)

\* d.get(k) is not None
DictHas(d, k) == \E i \in 1..Len(d) : d[i][1] = k

\* prefixed_name with the container name kept in the path
PrefixedNameKeepsContainer(prefix, k) ==
    IF Truthy(prefix) THEN prefix.v \o <<".">> \o k ELSE k

\* (prefix + '.' + k) if prefix and prefix != 'metadata' else k
prefixed_name(prefix, k) ==
    IF Truthy(prefix) /\ prefix # PyStr(METADATA) THEN prefix.v \o <<".">> \o k ELSE k

\* the loop over required_props marking every option of the schema so far
MarkEveryOption(opts, required, i, prefix) ==
    [exc |-> "none",
     options |-> [j \in 1..Len(opts) |->
                     <<opts[j][1],
                       IF Len(required) > 0 THEN [opts[j][2] EXCEPT !.required = TRUE]
                       ELSE opts[j][2]>>]]

\* the loop over required_props, from the i-th name on: [exc, options]
RECURSIVE MarkRequired(_, _, _, _)
MarkRequired(opts, required, i, prefix) ==
    IF i > Len(required) THEN [exc |-> "none", options |-> opts]
    ELSE IF required[i] \in {SCHEMA_NAME, METADATA}
    THEN MarkRequired(opts, required, i + 1, prefix)
    ELSE LET name == prefixed_name(prefix, required[i])
         IN  IF ~DictHas(opts, name)
             THEN [exc |-> "AttributeError", options |-> opts]   \* None.required = True
             ELSE MarkRequired([j \in 1..Len(opts) |->
                                   IF opts[j][1] = name
                                   THEN <<name, [opts[j][2] EXCEPT !.required = TRUE]>>
                                   ELSE opts[j]],
                               required, i + 1, prefix)

\* AppBase.schema_to_options(schema, level, prefix): [exc, options]; WalkProperties is
\* the loop over properties.items(), from the i-th item on
RECURSIVE schema_to_options(_, _, _)
RECURSIVE WalkProperties(_, _, _, _, _)
WalkProperties(opts, properties, i, level, prefix) ==
    IF i > Len(properties) THEN [exc |-> "none", options |-> opts]
    ELSE LET k == properties[i][1]
             v == properties[i][2]
             name == prefixed_name(prefix, k)
         IN  IF k = SCHEMA_NAME
             THEN WalkProperties(opts, properties, i + 1, level, prefix)
             ELSE IF v.type = "object"
             THEN LET sub == schema_to_options(v, level + 1, PyStr(name))
                  IN  IF sub.exc # "none" THEN [exc |-> sub.exc, options |-> opts]
                      ELSE WalkProperties(DictUpdate(opts, sub.options, 1),
                                          properties, i + 1, level, prefix)
             ELSE WalkProperties(
                      DictSet(opts, name,
                              IF level = 0 THEN SchemaProperty(name, v.type, v.default)
                              ELSE MetadataSchemaProperty(name, v.type, v.default)),
                      properties, i + 1, level, prefix)

schema_to_options(stanza, level, prefix) ==
    IF stanza.has_properties
    THEN LET w == WalkProperties(<<>>, stanza.properties, 1, level, prefix)
         IN  IF w.exc # "none" THEN w
             ELSE MarkRequired(w.options, stanza.required, 1, prefix)
    ELSE IF prefix = PyNone
    THEN [exc |-> "TypeError", options |-> <<>>]                   \* '--' + None
    ELSE [exc |-> "none",
          options |-> <<<<prefix.v, MetadataSchemaProperty(prefix.v, stanza.type,
                                                           stanza.default)>>>>]

\* AppBase.subcommands, as a subclass fills it: name -> description
NAME_LIST == <<"l", "i", "s", "t">>
NAME_BOGUS == <<"b", "o", "g", "u", "s">>
OPT_H == <<"-", "h">>
subcommands == [n \in {NAME_LIST} |-> PyStr(<<"L">>)]

\* AppBase.get_subcommand; the result is [a, ret], ret the value returned
get_subcommand(a) ==
    IF Len(a.argv) > 0
    THEN LET arg == a.argv[1]
         IN  IF arg \in DOMAIN subcommands
             THEN LET b == _remove_argv_entry(a, arg)
                  IN  [a |-> b, ret |-> IF b.st = "ok" THEN subcommands[arg] ELSE PyNone]
             ELSE IF arg \in {OPT_HELP, OPT_H}
             THEN [a |-> log_and_exit(a, NoMessage, 1, TRUE), ret |-> PyNone]
             ELSE [a |-> [a EXCEPT !.msg = Msg("invalid_subcommand", arg)], ret |-> PyNone]
    ELSE [a |-> a, ret |-> PyNone]

-----------------------------------------------------------------------------
(* The inputs of the model: command-line tokens, option lists, files *)

STR_X == <<"x">>
STR_Y == <<"y">>
STR_Z == <<"z">>
STR_5 == <<"5">>
NAME_NAME == <<"n", "a", "m", "e">>
NAME_SA == <<"s", ".", "a">>
NAME_SB == <<"s", ".", "b">>
NAME_F == <<"f">>
NAME_C == <<"c">>
NAME_U == <<"u">>
FILE_M == <<"d", "/", "m", ".", "j">>

Tok(name) == DD \o name
TokEq(name, value) == DD \o name \o <<"=">> \o value

\* tokens of the resolution runs; each is unknown to the option lists without its option
Tokens == {TokEq(NAME_NAME, STR_X), TokEq(NAME_SA, STR_5), Tok(NAME_SA),
           TokEq(NAME_F, STR_X), TokEq(NAME_C, STR_X), TokEq(NAME_C, STR_Z), OPT_HELP}

\* tokens of the ingestion runs
IngestTokens == {OPT_DEBUG, TokEq(<<"l", "o", "g", "-", "l", "e", "v", "e", "l">>, LEVEL_INFO),
                 TokEq(<<"f", "i", "l", "e">>, FILE_M), TokEq(NAME_NAME, STR_X),
                 TokEq(NAME_U, STR_5)}

Required(option) == [option EXCEPT !.required = TRUE]

\* the options a caller may hold
Catalogue ==
    {CliOption(Tok(NAME_NAME), PyStr(NAME_NAME), PyNone, PyNone, TRUE, "string"),
     Required(MetadataSchemaProperty(NAME_SA, "string", PyNone)),
     Required(MetadataSchemaProperty(NAME_SB, "string", PyNone)),
     Flag(Tok(NAME_F), PyStr(NAME_F), PyBool(FALSE), FALSE),
     Flag(Tok(NAME_F), PyStr(NAME_F), PyBool(TRUE), FALSE),
     CliOption(Tok(NAME_C), PyStr(NAME_C), PyNone, PyList({PyStr(STR_X), PyStr(STR_Y)}),
               FALSE, "string"),
     CliOption(Tok(NAME_C), PyStr(NAME_C), PyNone, PyList({PyStr(STR_X), PyStr(STR_Y)}),
               TRUE, "string")}

SeqsUpTo(S, n) == UNION {[1..k -> S] : k \in 0..n}

\* option lists: no two options of a list share a token
OptionLists(n) ==
    {l \in SeqsUpTo(Catalogue, n) :
        \A i, j \in 1..Len(l) : i # j => l[i].cli_option # l[j].cli_option}

\* tokens of the removal runs: an option given bare, with a value, with an empty value
ExactTokens == {Tok(NAME_F), TokEq(NAME_F, STR_X), TokEq(NAME_F, <<>>), TokEq(NAME_C, <<>>)}

\* option lists of the removal runs: the options that accept an empty value
ExactOptionLists(n) == {l \in OptionLists(n) : \A i \in 1..Len(l) : ~l[i].required}

\* tokens of the subcommand runs: a subcommand, an unknown word, help, an option
SubTokens == {NAME_LIST, NAME_BOGUS, OPT_HELP, OPT_H, TokEq(NAME_NAME, STR_X)}

\* option lists of the subcommand runs
SubOptionLists(n) == {l \in OptionLists(n) : \A i \in 1..Len(l) : l[i].cli_option = Tok(NAME_NAME)}

\* tokens of the runs with several instances
SharedTokens == {TokEq(NAME_NAME, STR_X), TokEq(NAME_C, STR_X), TokEq(NAME_F, STR_X)}

\* the file the --file token of the model names
MetadataFile == PyDict(<<<<METADATA, PyDict(<<<<<<"c">>, PyInt(3)>>>>)>>>>)

\* JSON objects: at most n items, keys distinct, the values of key k drawn from vals[k]
JsonObjects(vals, n) ==
    {o \in SeqsUpTo(UNION {{<<k, v>> : v \in vals[k]} : k \in DOMAIN vals}, n) :
        \A i, j \in 1..Len(o) : i # j => o[i][1] # o[j][1]}

JsonLeaves == {PyInt(3)}
JsonFlat == JsonObjects([k \in {<<"a">>, <<"b">>} |-> JsonLeaves], MaxJsonKeys)
JsonNested ==
    JsonObjects([k \in {<<"a">>, <<"b">>} |-> JsonLeaves \cup {PyDict(o) : o \in JsonFlat}],
                MaxJsonKeys)

\* the files of the --file runs: the metadata container at the top level only
JsonFiles ==
    JsonObjects([k \in {METADATA, <<"a">>, <<"b">>} |->
                    IF k = METADATA THEN JsonLeaves \cup {PyDict(o) : o \in JsonNested}
                    ELSE JsonLeaves \cup {PyDict(o) : o \in JsonFlat}],
                MaxJsonKeys)

\* the schemas of the compilation runs: schema_name, a top-level property d and the
\* metadata container at the top; in metadata a property a and an object s; in s the
\* properties a and b, or no 'properties' key at all
KEY_A == <<"a">>
KEY_B == <<"b">>
KEY_S == <<"s">>
KEY_D == <<"d">>

LeafStanza == SchemaNode("string", FALSE, <<>>, <<>>)

\* the items of a 'properties' object under the keys ks, in that order, the stanza of
\* key k drawn from vals[k]
RECURSIVE ItemsUnder(_, _)
ItemsUnder(ks, vals) ==
    IF Len(ks) = 0 THEN {<<>>}
    ELSE {<<<<ks[1], v>>>> \o rest : v \in vals[ks[1]], rest \in ItemsUnder(Tail(ks), vals)}

\* 'properties' objects: at most n items, keys distinct
Properties(vals, n) ==
    UNION {ItemsUnder(ks, vals) :
              ks \in {q \in SeqsUpTo(DOMAIN vals, n) :
                         \A i, j \in 1..Len(q) : i # j => q[i] # q[j]}}

\* required lists: names of keys, none twice
RequiredLists(keys) ==
    {l \in SeqsUpTo(keys, MaxProperties) : \A i, j \in 1..Len(l) : i # j => l[i] # l[j]}

SubSchemas ==
    {SchemaNode("object", FALSE, <<>>, <<>>)} \cup
    {SchemaNode("object", TRUE, ps, r) :
        ps \in Properties([k \in {KEY_A, KEY_B} |-> {LeafStanza}], MaxProperties),
        r \in RequiredLists({KEY_A, KEY_B})}

MetadataSchemas ==
    {SchemaNode("object", TRUE, ps, r) :
        ps \in Properties([k \in {KEY_A, KEY_S} |->
                               IF k = KEY_S THEN SubSchemas ELSE {LeafStanza}],
                           MaxProperties),
        r \in RequiredLists({KEY_A, KEY_S})}

Schemas ==
    {SchemaNode("object", TRUE, ps, r) :
        ps \in Properties([k \in {SCHEMA_NAME, KEY_D, METADATA} |->
                               IF k = METADATA THEN MetadataSchemas ELSE {LeafStanza}],
                           MaxProperties),
        r \in RequiredLists({SCHEMA_NAME, KEY_D, METADATA})}

NoCall == [op |-> "none", i |-> 0, check_help |-> FALSE]

-----------------------------------------------------------------------------
(* The state machine *)

InitCommon ==
    /\ argv_mappings = EmptyMap       \* the class attribute, argv_mappings = {}
    /\ log_level = LEVEL_INFO         \* logging.basicConfig(level=logging.INFO)
    /\ status = "new"
    /\ exit_status = 0
    /\ message = NoMessage
    /\ help_shown = FALSE
    /\ returned = PyNone
    /\ schema = PyNone

Init ==
    /\ InitCommon
    /\ argv \in SeqsUpTo(Tokens, MaxArgv)
    /\ options \in OptionLists(MaxOptions)
    /\ files = [f \in {FILE_M} |-> MetadataFile]
    /\ last = [call |-> NoCall, argv |-> argv, argv_mappings |-> argv_mappings,
               options |-> options]

\* the instance as the methods see it
Self == [argv |-> argv, map |-> argv_mappings, opts |-> options, log |-> log_level,
         st |-> "ok", code |-> 0, msg |-> NoMessage, help |-> FALSE]

\* the state a call leaves behind
ReturningFor(r, call, value, given) ==
    /\ argv' = r.argv
    /\ argv_mappings' = r.map
    /\ options' = r.opts
    /\ log_level' = r.log
    /\ status' = IF r.st = "ok" THEN "running" ELSE r.st
    /\ exit_status' = r.code
    /\ message' = r.msg
    /\ help_shown' = r.help
    /\ last' = [call |-> call, argv |-> given, argv_mappings |-> argv_mappings,
                options |-> options]
    /\ returned' = value
    /\ UNCHANGED <<files, schema>>

\* the state a call on the instance in hand leaves behind
Returning(r, call, value) == ReturningFor(r, call, value, argv)

\* the state a call that returns None leaves behind
Commit(r, call) == Returning(r, call, PyNone)

\* AppBase(argv=argv)
Construct ==
    /\ status = "new"
    /\ Commit(_get_argv_mappings(Self, files),
              [op |-> "__init__", i |-> 0, check_help |-> FALSE])

\* app.process_cli_option(options[i], check_help)
ProcessCliOption ==
    /\ status = "running"
    /\ \E i \in 1..Len(options), check_help \in BOOLEAN :
          Commit(process_cli_option(Self, i, check_help),
                 [op |-> "process_cli_option", i |-> i, check_help |-> check_help])

\* app.process_cli_options(options)
ProcessCliOptions ==
    /\ status = "running"
    /\ Commit(process_cli_options(Self),
              [op |-> "process_cli_options", i |-> 0, check_help |-> FALSE])

Next == Construct \/ ProcessCliOption \/ ProcessCliOptions

Spec == Init /\ [][Next]_vars

\* Ingestion runs: vectors of control tokens (--debug, --log-level, --file) and others,
\* the --file target being a metadata file, missing, or not JSON.
InitIngest ==
    /\ InitCommon
    /\ argv \in SeqsUpTo(IngestTokens, MaxIngestArgv)
    /\ options \in OptionLists(1)
    /\ files \in {[f \in {FILE_M} |-> c] : c \in {MetadataFile, NoFile, NotJson}}
    /\ last = [call |-> NoCall, argv |-> argv, argv_mappings |-> argv_mappings,
               options |-> options]

SpecIngest == InitIngest /\ [][Next]_vars

\* --file runs: the vector is the --file token, the file any JSON object of JsonFiles.
InitJson ==
    /\ InitCommon
    /\ argv = <<TokEq(<<"f", "i", "l", "e">>, FILE_M)>>
    /\ options = <<CliOption(Tok(NAME_NAME), PyStr(NAME_NAME), PyNone, PyNone, TRUE, "string")>>
    /\ files \in {[f \in {FILE_M} |-> PyDict(o)] : o \in JsonFiles}
    /\ last = [call |-> NoCall, argv |-> argv, argv_mappings |-> argv_mappings,
               options |-> options]

SpecJson == InitJson /\ [][Next]_vars

\* the removal runs: vectors with bare, valued and empty-valued tokens
InitExact ==
    /\ InitCommon
    /\ argv \in SeqsUpTo(ExactTokens, MaxArgv)
    /\ options \in ExactOptionLists(MaxOptions)
    /\ files = [f \in {FILE_M} |-> MetadataFile]
    /\ last = [call |-> NoCall, argv |-> argv, argv_mappings |-> argv_mappings,
               options |-> options]

SpecExact == InitExact /\ [][Next]_vars

\* app.get_subcommand()
GetSubcommand ==
    /\ status = "running"
    /\ LET r == get_subcommand(Self)
       IN  Returning(r.a, [op |-> "get_subcommand", i |-> 0, check_help |-> FALSE], r.ret)

\* the subcommand runs: the vector starts with a subcommand, an unknown word, a help
\* token or an option
InitSub ==
    /\ InitCommon
    /\ argv \in SeqsUpTo(SubTokens, MaxArgv)
    /\ options \in SubOptionLists(MaxOptions)
    /\ files = [f \in {FILE_M} |-> MetadataFile]
    /\ last = [call |-> NoCall, argv |-> argv, argv_mappings |-> argv_mappings,
               options |-> options]

NextSub == Construct \/ GetSubcommand \/ ProcessCliOption \/ ProcessCliOptions

SpecSub == InitSub /\ [][NextSub]_vars

\* AppBase(argv=v) once more in the same process: a new instance, with its own argv
\* attribute and the argv_mappings dict of the class; it is the instance in hand from
\* now on
ConstructAnother ==
    /\ status = "running"
    /\ \E v \in SeqsUpTo(SharedTokens, MaxArgv) :
          ReturningFor(_get_argv_mappings([Self EXCEPT !.argv = v], files),
                       [op |-> "__init__", i |-> 0, check_help |-> FALSE], PyNone, v)

\* runs with several instances in one process
InitShared ==
    /\ InitCommon
    /\ argv \in SeqsUpTo(SharedTokens, MaxArgv)
    /\ options \in SubOptionLists(MaxOptions)
    /\ files = [f \in {FILE_M} |-> MetadataFile]
    /\ last = [call |-> NoCall, argv |-> argv, argv_mappings |-> argv_mappings,
               options |-> options]

NextShared == Construct \/ ConstructAnother \/ ProcessCliOption \/ ProcessCliOptions

SpecShared == InitShared /\ [][NextShared]_vars

\* options = list(AppBase.schema_to_options(schema).values())
SchemaToOptions ==
    /\ status \in {"new", "running"}
    /\ schema = PyNone
    /\ \E s \in Schemas :
          LET r == schema_to_options(s, 0, PyNone)
          IN  /\ schema' = s
              /\ options' = [i \in 1..Len(r.options) |-> r.options[i][2]]
              /\ status' = IF r.exc = "none" THEN status ELSE "raised"
              /\ message' = IF r.exc = "none" THEN NoMessage ELSE Msg(r.exc, <<>>)
              /\ last' = [call |-> [op |-> "schema_to_options", i |-> 0, check_help |-> FALSE],
                          argv |-> argv, argv_mappings |-> argv_mappings, options |-> options]
              /\ returned' = PyNone
              /\ UNCHANGED <<argv, argv_mappings, files, log_level, exit_status, help_shown>>

\* the compilation runs: no option before the schema is compiled
InitSchema ==
    /\ InitCommon
    /\ argv = <<TokEq(NAME_SA, STR_5)>>
    /\ options = <<>>
    /\ files = [f \in {FILE_M} |-> MetadataFile]
    /\ last = [call |-> NoCall, argv |-> argv, argv_mappings |-> argv_mappings,
               options |-> options]

NextSchema == SchemaToOptions \/ Construct \/ ProcessCliOptions

SpecSchema == InitSchema /\ [][NextSchema]_vars

-----------------------------------------------------------------------------
(* Properties.  A property about a call reads the call and the state it was  *)
(* made in from "last", and its outcome from the current state.               *)

Call == last.call

\* the instance as the call just made found it
PreSelf == [argv |-> last.argv, map |-> last.argv_mappings, opts |-> last.options,
            log |-> log_level, st |-> "ok", code |-> 0, msg |-> NoMessage, help |-> FALSE]

OptionCall(i) == Call.op = "process_cli_option" /\ Call.i = i
BatchCall == Call.op = "process_cli_options"

\* the call on option i got past the help check and the processed check
ReachesResolution(i) ==
    /\ ~(Call.check_help /\ has_help(PreSelf))
    /\ ~last.options[i].processed

ExitedNonZero == status = "exit" /\ exit_status # 0

Dotted(o) == o.name.t = "str" /\ Contains(o.name.v, ".")
Undotted(o) == o.name.t = "str" /\ ~Contains(o.name.v, ".")
RequiredUnset(o) == o.required /\ o.value = PyNone /\ o.default_value = PyNone
SubPrefix(o) == RSplitHead(o.cli_option, ".") \o <<".">>
TokenPresent(o) == o.cli_option \in DOMAIN last.argv_mappings

\* C1: a batch resolution over two required, default-less options of one sub-object,
\* the input giving a non-null value for one of them only, fails with the
\* missing-required error for the other one, in either order of the list.
C1_PartialSubObjectFails ==
    \A i, j \in 1..Len(last.options) :
        LET oi == last.options[i]
            oj == last.options[j]
        IN  (/\ BatchCall /\ ~has_help(PreSelf)
             /\ Len(last.options) = 2 /\ i # j
             /\ Dotted(oi) /\ RequiredUnset(oi) /\ ~oi.processed
             /\ Dotted(oj) /\ RequiredUnset(oj) /\ ~oj.processed
             /\ SubPrefix(oi) = SubPrefix(oj)
             /\ TokenPresent(oi) /\ last.argv_mappings[oi.cli_option] # PyNone
             /\ ~TokenPresent(oj))
            => (ExitedNonZero /\ message = Msg("required", oj.cli_option))

\* C2: process_cli_option on a required option with an undotted name, no value and no
\* token in the mapping terminates the program with a non-zero status, with the
\* missing-required message unless the help check ended the call first; and the
\* required flag of an option with an undotted name never changes.
UndottedMissing(o) == Undotted(o) /\ o.required /\ o.value = PyNone /\ ~TokenPresent(o)

C2_UndottedRequiredMissingExits ==
    \A i \in 1..Len(options) :
        /\ Undotted(options[i]) => options[i].required = last.options[i].required
        /\ (OptionCall(i) /\ UndottedMissing(last.options[i]))
           => /\ ExitedNonZero
              /\ options[i].required
              /\ ~(Call.check_help /\ has_help(PreSelf))
                 => (message.kind \in {"required", "required_one_of"}
                     /\ message.option = options[i].cli_option)

C2_Witness ==
    /\ Call.op = "process_cli_option"
    /\ UndottedMissing(last.options[Call.i])
    /\ ExitedNonZero
    /\ message = Msg("required", options[Call.i].cli_option)

\* C3: the option list is one required string option, the vector its token --name=v
\* alone (v not empty) and the mapping the one entry made from it.
SoleTokenOption ==
    /\ BatchCall
    /\ Len(last.options) = 1 /\ Len(last.argv) = 1
    /\ Contains(last.argv[1], "=")
    /\ Split1(last.argv[1], "=")[1] = last.options[1].cli_option
    /\ Len(Split1(last.argv[1], "=")[2]) > 0
    /\ DOMAIN last.argv_mappings = {last.options[1].cli_option}
    /\ last.argv_mappings[last.options[1].cli_option] = PyStr(Split1(last.argv[1], "=")[2])
    /\ last.options[1].class # "Flag"
    /\ last.options[1].type = "string"
    /\ last.options[1].required

SoleTokenResolved ==
    /\ status = "running"
    /\ options[1].value = PyStr(Split1(last.argv[1], "=")[2])
    /\ argv = <<>>

\* C3 as claimed: process_cli_options then returns without terminating the program,
\* the option's value is v and the vector is empty.
C3_SoleTokenResolves == SoleTokenOption => SoleTokenResolved

\* C3 amended: the same, for an option that has no oneOf set or whose oneOf holds v.
C3_SoleTokenResolvesInOneOf ==
    (/\ SoleTokenOption
     /\ \/ ~Truthy(last.options[1].one_of)
        \/ PyStr(Split1(last.argv[1], "=")[2]) \in last.options[1].one_of.v)
    => SoleTokenResolved

C3_Witness == SoleTokenOption /\ SoleTokenResolved /\ Truthy(last.options[1].one_of)

\* C4: a call of process_cli_option that reaches the resolution steps of a Flag leaves
\* value = NOT default_value when the Flag's token is in the mapping, whatever the
\* token's text after '=', and value = default_value when it is not; so does a batch
\* resolution that returns.
FlagResolved(i) ==
    IF TokenPresent(last.options[i])
    THEN options[i].value = PyBool(~Truthy(options[i].default_value))
    ELSE options[i].value = options[i].default_value

C4_FlagNegatesDefault ==
    \A i \in 1..Len(options) :
        options[i].class = "Flag" =>
            /\ (OptionCall(i) /\ ReachesResolution(i)) => FlagResolved(i)
            /\ (BatchCall /\ status = "running" /\ ~last.options[i].processed)
               => FlagResolved(i)

C4_Witness ==
    /\ Call.op = "process_cli_option"
    /\ options[Call.i].class = "Flag"
    /\ ReachesResolution(Call.i)
    /\ TokenPresent(options[Call.i])
    /\ Truthy(last.argv_mappings[options[Call.i].cli_option])
    /\ options[Call.i].default_value = PyBool(TRUE)
    /\ options[Call.i].value = PyBool(FALSE)

\* C5: process_cli_options returns only with an empty vector: when a token is left
\* after the options are resolved, and in particular when the vector held a token
\* that is no option's, the program is terminated with a non-zero status.
OptionOf(arg) == IF Contains(arg, "=") THEN Split1(arg, "=")[1] ELSE arg

HasUnknownToken ==
    \E k \in 1..Len(last.argv) :
        \A i \in 1..Len(last.options) : OptionOf(last.argv[k]) # last.options[i].cli_option

C5_LeftoverArgumentsExit ==
    BatchCall =>
        /\ status = "running" => argv = <<>>
        /\ argv # <<>> => ExitedNonZero
        /\ HasUnknownToken => ExitedNonZero

C5_Witness ==
    /\ BatchCall
    /\ HasUnknownToken
    /\ ExitedNonZero
    /\ message.kind = "unexpected"

\* C6: a second call of process_cli_option on the same option, with the same
\* check_help, made in the state the first call left (also when the first call ended
\* in sys.exit and its caller went on), leaves the option list, the mapping and the
\* vector as the first call left them and ends the way the first call ended.
C6_SecondCallChangesNothing ==
    Call.op = "process_cli_option" =>
        LET r == process_cli_option(Self, Call.i, Call.check_help)
        IN  /\ r.argv = argv
            /\ r.map = argv_mappings
            /\ r.opts = options
            /\ status = "running" => r.st = "ok"
            /\ status # "running" => (r.st = status /\ r.msg = message /\ r.code = exit_status)

C6_Witness ==
    /\ Call.op = "process_cli_option"
    /\ last.options[Call.i].processed
    /\ status = "running"
    /\ options = last.options /\ argv = last.argv /\ argv_mappings = last.argv_mappings
    /\ options[Call.i].value # options[Call.i].default_value

\* C7: the call of process_cli_option on a required, default-less dotted option reaches
\* the resolution steps, and the mapping holds no entry with a non-null value under the
\* option's sub-object prefix.
NothingUnderPrefix(i) ==
    /\ OptionCall(i)
    /\ ReachesResolution(i)
    /\ Dotted(last.options[i])
    /\ RequiredUnset(last.options[i])
    /\ ~SubObjectHasValue(last.argv_mappings, SubPrefix(last.options[i]))

Exempted(i) == status = "running" /\ ~options[i].required /\ options[i].processed

\* C7 as claimed: the call reports no error, clears required and marks the option
\* processed.
C7_AbsentSubObjectExempts ==
    \A i \in 1..Len(options) : NothingUnderPrefix(i) => Exempted(i)

\* C7 amended: so it does when the option's own token is not a key of the mapping; and
\* no call sets a cleared required flag again.
C7_AbsentSubObjectExemptsAbsentOption ==
    \A i \in 1..Len(options) :
        /\ (NothingUnderPrefix(i) /\ ~TokenPresent(last.options[i])) => Exempted(i)
        /\ ~last.options[i].required => ~options[i].required

C7_Witness ==
    /\ Call.op = "process_cli_option"
    /\ NothingUnderPrefix(Call.i)
    /\ ~TokenPresent(last.options[Call.i])
    /\ Exempted(Call.i)

\* C8: a call of process_cli_option that reaches the resolution steps of a non-flag
\* option with a oneOf set, the option's token being in the mapping and its coerced
\* value not in oneOf, terminates with the invalid-choice error, required or not.
C8_InvalidChoiceExits ==
    \A i \in 1..Len(options) :
        LET o == last.options[i]
        IN  (/\ OptionCall(i)
             /\ ReachesResolution(i)
             /\ o.class # "Flag"
             /\ Truthy(o.one_of)
             /\ TokenPresent(o)
             /\ set_value(o.type, last.argv_mappings[o.cli_option]).ok
             /\ set_value(o.type, last.argv_mappings[o.cli_option]).v \notin o.one_of.v)
            => (ExitedNonZero /\ message = Msg("requires_one_of", o.cli_option))

\* the option names the claim gives the leaves of a JSON object: key, parent.child,
\* and the metadata container's leaves without "metadata."
RECURSIVE LeafNames(_, _)
LeafNames(items, prefix) ==
    UNION {LET key == items[k][1]
               name == IF key = METADATA THEN prefix
                       ELSE IF Len(prefix) > 0 THEN prefix \o <<".">> \o key ELSE key
           IN  IF items[k][2].t = "dict" THEN LeafNames(items[k][2].v, name) ELSE {name}
           : k \in 1..Len(items)}

\* the JSON objects the --file tokens of the vector name
FilesGiven ==
    {files[Split1(last.argv[k], "=")[2]] :
        k \in {n \in 1..Len(last.argv) :
                  /\ Contains(last.argv[n], "=")
                  /\ Split1(last.argv[n], "=")[1] = OPT_FILE
                  /\ Split1(last.argv[n], "=")[2] \in DOMAIN files}}

\* C9: after ingestion has loaded a --file JSON object, every leaf of the object has
\* its entry in the mapping, whatever the order and number of the object's keys.
C9_EveryLeafMapped ==
    (Call.op = "__init__" /\ status = "running") =>
        \A f \in FilesGiven :
            f.t = "dict" =>
                \A name \in LeafNames(f.v, <<>>) : (DD \o name) \in DOMAIN argv_mappings

\* C10: after ingestion no --debug, --log-level or --file token is left in the vector,
\* none of the three is a key of the mapping, and every other token is a key of it.
ControlOptions == {OPT_DEBUG, OPT_LOG_LEVEL, OPT_FILE}

C10_ControlTokensStripped ==
    (Call.op = "__init__" /\ status = "running") =>
        /\ \A k \in 1..Len(argv) : OptionOf(argv[k]) \notin ControlOptions
        /\ ControlOptions \cap DOMAIN argv_mappings = {}
        /\ \A k \in 1..Len(last.argv) :
              OptionOf(last.argv[k]) \notin ControlOptions
              => OptionOf(last.argv[k]) \in DOMAIN argv_mappings

\* C14: process_cli_options called with a help token among the keys of the mapping
\* renders help and terminates the program with no option resolved: the options, the
\* mapping and the vector are as the call found them.
C14_HelpBeforeResolution ==
    (BatchCall /\ has_help(PreSelf)) =>
        /\ status = "exit" /\ help_shown /\ message = NoMessage
        /\ options = last.options
        /\ argv_mappings = last.argv_mappings
        /\ argv = last.argv

C14_Witness ==
    /\ BatchCall /\ has_help(PreSelf)
    /\ \E i \in 1..Len(last.options) :
          TokenPresent(last.options[i]) /\ ~last.options[i].processed
    /\ status = "exit" /\ help_shown

\* C18: a call of process_cli_option that reaches the resolution steps leaves the
\* option with processed = true on every outcome, the missing-required, missing-value
\* and invalid-choice errors included.
C18_ProcessedOnEveryOutcome ==
    \A i \in 1..Len(options) :
        (OptionCall(i) /\ ReachesResolution(i)) => options[i].processed

\* C18, amended: a call of process_cli_option that reaches the resolution steps leaves
\* the option with processed = true exactly when the call returns; a call that reports
\* an error ends in sys.exit and leaves processed = false.
C18_ProcessedExactlyOnReturn ==
    \A i \in 1..Len(options) :
        (OptionCall(i) /\ ReachesResolution(i)) =>
            (options[i].processed <=> status = "running")

C18_Witness ==
    /\ Call.op = "process_cli_option"
    /\ ReachesResolution(Call.i)
    /\ ExitedNonZero
    /\ message.kind \in {"required", "required_one_of", "requires_value", "requires_one_of"}
    /\ ~options[Call.i].processed

\* the call just made changed nothing and ended nothing
NothingChanged ==
    /\ options = last.options
    /\ argv_mappings = last.argv_mappings
    /\ argv = last.argv
    /\ status = "running" /\ ~help_shown /\ message = NoMessage

\* C19: process_cli_option on an option that is already processed is a no-op for
\* every value of check_help and every content of the mapping: no field, mapping entry
\* or vector element changes, no help is rendered and the program does not terminate.
C19_ReprocessIsNoOp ==
    \A i \in 1..Len(options) :
        (OptionCall(i) /\ last.options[i].processed) => NothingChanged

\* C19, amended: process_cli_option on an option that is already processed is a no-op
\* when check_help is false or no help token is a key of the mapping; with check_help
\* true and a help token in the mapping it renders help and terminates the program,
\* leaving options, mapping and vector as they were.
C19_ReprocessIsNoOpUnlessHelp ==
    \A i \in 1..Len(options) :
        (OptionCall(i) /\ last.options[i].processed) =>
            IF Call.check_help /\ has_help(PreSelf)
            THEN /\ status = "exit" /\ help_shown
                 /\ options = last.options
                 /\ argv_mappings = last.argv_mappings
                 /\ argv = last.argv
            ELSE NothingChanged

C19_Witness ==
    /\ Call.op = "process_cli_option"
    /\ last.options[Call.i].processed
    /\ ~Call.check_help /\ has_help(PreSelf)
    /\ NothingChanged

\* C17: whenever process_cli_options returns normally the mapping is empty: an entry
\* no option has consumed, whether it came from a token of the vector or from the
\* JSON payload of --file, makes the resolution fail.
C17_ReturnsWithEmptyMapping ==
    (BatchCall /\ status = "running") => DOMAIN argv_mappings = {}

\* the positions of the vector, as the call found it, that hold a token of option o
TokensOf(o) == {k \in 1..Len(last.argv) : SplitHead(last.argv[k], "=") = o.cli_option}

\* the token that produced the entry of o: the last one of the vector for that key
ProducingToken(o) ==
    last.argv[CHOOSE k \in TokensOf(o) : \A j \in TokensOf(o) : j <= k]

\* C16: a call of process_cli_option that finds the option's token in the mapping and
\* resolves it without error removes the token that produced the entry, exactly as it
\* was given (--opt, --opt=value or --opt=), from the vector and its key from the mapping.
C16_ExactTokenRemoved ==
    \A i \in 1..Len(options) :
        LET o == last.options[i]
        IN  (/\ OptionCall(i) /\ ReachesResolution(i)
             /\ TokenPresent(o) /\ TokensOf(o) # {}
             /\ status = "running")
            => /\ o.cli_option \notin DOMAIN argv_mappings
               /\ argv = ListRemove(last.argv, ProducingToken(o))

\* the orders a list of n options can stand in
Orders(n) == {p \in [1..n -> 1..n] : \A i, j \in 1..n : i # j => p[i] # p[j]}

\* process_cli_options on the instance the call found, the list standing in order p
BatchInOrder(p) ==
    process_cli_options([PreSelf EXCEPT !.opts = [k \in 1..Len(p) |-> last.options[p[k]]]])

\* C20: for a fixed option set and vector, whether process_cli_options fails, and on
\* success the final value and required flag of every option, are the same for every
\* order in which the options stand in the list.
C20_OrderIndependent ==
    BatchCall =>
        \A p \in Orders(Len(last.options)) :
            LET r == BatchInOrder(p)
            IN  /\ (r.st = "ok") <=> (status = "running")
                /\ (r.st = "ok") =>
                       \A k \in 1..Len(p) :
                           /\ r.opts[k].value = options[p[k]].value
                           /\ r.opts[k].required = options[p[k]].required

HelpTokens == {OPT_HELP, OPT_H}

\* C13: get_subcommand on a vector whose first element is a registered subcommand
\* removes exactly that element from the vector and its key from the mapping and
\* returns the subcommand's description; on a help token it renders help and
\* terminates; in every other case it returns None, leaves vector and mapping as they
\* were and does not terminate.
C13_SubcommandFrame ==
    Call.op = "get_subcommand" =>
        IF Len(last.argv) > 0 /\ last.argv[1] \in DOMAIN subcommands
        THEN /\ status = "running"
             /\ returned = subcommands[last.argv[1]]
             /\ argv = Tail(last.argv)
             /\ argv_mappings = MapPop(last.argv_mappings, last.argv[1])
        ELSE IF Len(last.argv) > 0 /\ last.argv[1] \in HelpTokens
        THEN status = "exit" /\ help_shown
        ELSE /\ status = "running" /\ ~help_shown
             /\ returned = PyNone
             /\ argv = last.argv
             /\ argv_mappings = last.argv_mappings

\* the mapping ingestion builds from the vector the constructor was given, and from
\* nothing else
OwnMapping == _get_argv_mappings([PreSelf EXCEPT !.map = EmptyMap], files).map

\* C15: the mapping of an instance holds only the entries derived from the vector (or
\* --file payload) the instance was constructed with: whatever other instances of the
\* process ingested or resolved before, construction leaves the mapping that the
\* instance's own vector gives.
C15_MappingOfOwnVectorOnly ==
    (Call.op = "__init__" /\ status = "running") => argv_mappings = OwnMapping

Compiled == Call.op = "schema_to_options" /\ status # "raised"

\* a stanza that schema_to_options descends into
HasSubProperties(v) == v.type = "object" /\ v.has_properties

\* the paths, as sequences of keys from the root, of the properties of a stanza that
\* are not descended into
RECURSIVE LeafPaths(_, _)
LeafPaths(stanza, path) ==
    UNION {LET k == stanza.properties[i][1]
               v == stanza.properties[i][2]
           IN  IF HasSubProperties(v) THEN LeafPaths(v, Append(path, k))
               ELSE {Append(path, k)} : i \in 1..Len(stanza.properties)}

RECURSIVE JoinDots(_)
JoinDots(path) ==
    IF Len(path) = 0 THEN <<>>
    ELSE IF Len(path) = 1 THEN path[1]
    ELSE path[1] \o <<".">> \o JoinDots(Tail(path))

\* the dotted path with the container name metadata left out
DottedPath(path) == JoinDots(SelectSeq(path, LAMBDA k : k # METADATA))

OptionNames == {options[i].name.v : i \in 1..Len(options)}

\* C11: the options schema_to_options returns are named by the dotted paths of the
\* leaf properties from the schema root, the container name metadata left out, each
\* with the token '--' + name, and none of them is for the property schema_name.
C11_DottedNamesWithoutContainer ==
    Compiled =>
        /\ OptionNames = {DottedPath(p) : p \in {q \in LeafPaths(schema, <<>>) :
                                                    q[Len(q)] # SCHEMA_NAME}}
        /\ \A i \in 1..Len(options) :
              /\ options[i].cli_option = DD \o options[i].name.v
              /\ options[i].name.v # SCHEMA_NAME

C11_Witness ==
    /\ Compiled
    /\ <<METADATA, KEY_S, KEY_B>> \in LeafPaths(schema, <<>>)
    /\ <<SCHEMA_NAME>> \in LeafPaths(schema, <<>>)
    /\ \E i \in 1..Len(options) : options[i].cli_option = Tok(NAME_SB)

\* the prefixed names that the required lists of a stanza and of the stanzas below it
\* declare
RECURSIVE DeclaredRequired(_, _)
DeclaredRequired(stanza, path) ==
    {DottedPath(Append(path, stanza.required[j])) : j \in 1..Len(stanza.required)}
    \cup UNION {LET k == stanza.properties[i][1]
                    v == stanza.properties[i][2]
                IN  IF HasSubProperties(v) THEN DeclaredRequired(v, Append(path, k))
                    ELSE {} : i \in 1..Len(stanza.properties)}

\* C12: the options schema_to_options returns with required = true are exactly those
\* that a required list names, under the prefixed name of the stanza declaring the
\* list; every other option has required = false.
C12_RequiredExactlyAsDeclared ==
    Compiled =>
        \A i \in 1..Len(options) :
            options[i].required <=> options[i].name.v \in DeclaredRequired(schema, <<>>)

C12_Witness ==
    /\ Compiled
    /\ \E i \in 1..Len(schema.properties) :
          /\ schema.properties[i][1] = METADATA
          /\ \E j \in 1..Len(schema.properties[i][2].properties) :
                LET sub == schema.properties[i][2].properties[j]
                IN  /\ sub[1] = KEY_S
                    /\ sub[2].required = <<KEY_A>>
                    /\ Len(sub[2].properties) = 2
    /\ \E i, j \in 1..Len(options) :
          /\ options[i].name.v = NAME_SA /\ options[i].required
          /\ options[j].name.v = NAME_SB /\ ~options[j].required

====
